---- MODULE Spec2Model ----
(***************************************************************************)
(* Generation-orchestration layer of yengineering/y-functions.             *)
(*                                                                         *)
(* The repository holds several revisions of the chat endpoint:            *)
(*   "loop"   functions/yinYang.ts     hand-written primary/fallback loops *)
(*   "retry"  functions/yang.ts:269-   chatResponse built on withRetry     *)
(*   "group"  unnamed/part_003         withRetry + group-chat history      *)
(* and the caption orchestrator functions/caption.ts:270-.                 *)
(***************************************************************************)
EXTENDS Integers, Sequences, FiniteSets, TLC

(***************************************************************************)
(* Bounds of the model.                                                    *)
(***************************************************************************)
\* longest history array drawn for the history normalizer
MaxHist == 3
\* most images accepted in one request
MaxImages == 1
\* most file parts in one multipart body
MaxFiles == 2
\* the largest maxRetries withRetry is called with
MaxTries == 4

(***************************************************************************)
(* Program constants.                                                      *)
(***************************************************************************)
RETRY_DELAY_MS == 1000
MAX_PRIMARY_RETRIES == 3
MAX_FALLBACK_RETRIES == 10
\* the HTTP status the model service reports when it is overloaded
OVERLOADED == 503

\* A string is the sequence of its tokens (words, blanks, punctuation), so that
\* trimming and prefix stripping are computed on it; "" is << >>.
FAILURE_RESPONSE == <<"...", " ", "ummmmm">>
PARSE_FAILURE_LOOP == <<"I can see your image, but I'm having trouble processing it right now.", " ", "Can you tell me what you'd like to know about it?">>
PARSE_FAILURE_RETRY == <<"I'm having trouble processing right now.">>

\* mutant: one more fallback attempt
RETRY_CONFIG_Long ==
  [primary  |-> [maxRetries |-> 3, delayMs |-> 1000, exponentialBackoff |-> TRUE],
   fallback |-> [maxRetries |-> 6, delayMs |-> 1000, exponentialBackoff |-> FALSE]]

RETRY_CONFIG ==
  [primary  |-> [maxRetries |-> 3, delayMs |-> 1000, exponentialBackoff |-> TRUE],
   fallback |-> [maxRetries |-> 5, delayMs |-> 1000, exponentialBackoff |-> FALSE]]

Revisions == {"loop", "retry", "group"}
WithRetryRevisions == {"retry", "group"}

(***************************************************************************)
(* JavaScript values, as far as the response interpreter looks at them.    *)
(* Every value is a record of one shape: t is the type tag, s the tokens   *)
(* of a string, n the value of a number, items the elements of an array.   *)
(***************************************************************************)
JUndefined == [t |-> "undefined", s |-> <<>>, n |-> 0, items |-> <<>>]
JNull      == [t |-> "null",      s |-> <<>>, n |-> 0, items |-> <<>>]
JObject    == [t |-> "object",    s |-> <<>>, n |-> 0, items |-> <<>>]
JString(x) == [t |-> "string",    s |-> x,  n |-> 0, items |-> <<>>]
JNumber(k) == [t |-> "number",    s |-> <<>>, n |-> k, items |-> <<>>]
JArray(xs) == [t |-> "array",     s |-> <<>>, n |-> 0, items |-> xs]

\* ToBoolean(v)
Truthy(v) ==
  CASE v.t = "undefined" -> FALSE
    [] v.t = "null"      -> FALSE
    [] v.t = "number"    -> v.n # 0
    [] v.t = "string"    -> v.s # <<>>
    [] OTHER             -> TRUE

\* Array.isArray(v)
IsArray(v) == v.t = "array"

\* v?.length is a number (strings and arrays), and that number is not 0
HasLength(v) ==
  CASE v.t = "array"  -> Len(v.items) > 0
    [] v.t = "string" -> v.s # <<>>
    [] OTHER          -> FALSE

(***************************************************************************)
(* The raw texts a successful model call can return, and JSON.parse on     *)
(* them.  top is what the text parses to ("throw": a SyntaxError);         *)
(* bubbles is the value of the bubbles property of a parsed object.        *)
(***************************************************************************)
RawTexts ==
  { "sorry, no json", "null", "7", "[]", "{}",
    "{\"bubbles\":null}", "{\"bubbles\":[]}", "{\"bubbles\":[\"hi\"]}",
    "{\"bubbles\":[\"hi\",\"yo\"]}", "{\"bubbles\":\"hi\"}", "{\"bubbles\":\"\"}",
    "{\"bubbles\":7}", "{\"bubbles\":[7]}", "{\"bubbles\":{}}",
    "{\"bubbles\":[\"(angel): hi\"]}", "{\"bubbles\":[\"(devil): hi\"]}",
    "{\"bubbles\":[\"(angel) yin: hi\"]}", "{\"bubbles\":[\"(devil)yang: hi\"]}" }

Parsed(top, bubbles) == [top |-> top, bubbles |-> bubbles]

JSONparse(text) ==
  CASE text = "sorry, no json"                -> Parsed("throw",     JUndefined)
    [] text = "null"                          -> Parsed("null",      JUndefined)
    [] text = "7"                             -> Parsed("primitive", JUndefined)
    [] text = "[]"                            -> Parsed("array",     JUndefined)
    [] text = "{}"                            -> Parsed("object",    JUndefined)
    [] text = "{\"bubbles\":null}"            -> Parsed("object",    JNull)
    [] text = "{\"bubbles\":[]}"              -> Parsed("object",    JArray(<<>>))
    [] text = "{\"bubbles\":[\"hi\"]}"        -> Parsed("object",    JArray(<<JString(<<"hi">>)>>))
    [] text = "{\"bubbles\":[\"hi\",\"yo\"]}" -> Parsed("object",    JArray(<<JString(<<"hi">>), JString(<<"yo">>)>>))
    [] text = "{\"bubbles\":\"hi\"}"          -> Parsed("object",    JString(<<"hi">>))
    [] text = "{\"bubbles\":\"\"}"            -> Parsed("object",    JString(<<>>))
    [] text = "{\"bubbles\":7}"               -> Parsed("object",    JNumber(7))
    [] text = "{\"bubbles\":[7]}"             -> Parsed("object",    JArray(<<JNumber(7)>>))
    [] text = "{\"bubbles\":{}}"              -> Parsed("object",    JObject)
    [] text = "{\"bubbles\":[\"... ummmmm\"]}" -> Parsed("object",   JArray(<<JString(FAILURE_RESPONSE)>>))
    [] text = "{\"bubbles\":[\"(angel): hi\"]}"
         -> Parsed("object", JArray(<<JString(<<"(angel)", ":", " ", "hi">>)>>))
    [] text = "{\"bubbles\":[\"(devil): hi\"]}"
         -> Parsed("object", JArray(<<JString(<<"(devil)", ":", " ", "hi">>)>>))
    [] text = "{\"bubbles\":[\"(angel) yin: hi\"]}"
         -> Parsed("object", JArray(<<JString(<<"(angel)", " ", "yin", ":", " ", "hi">>)>>))
    [] text = "{\"bubbles\":[\"(devil)yang: hi\"]}"
         -> Parsed("object", JArray(<<JString(<<"(devil)", "yang", ":", " ", "hi">>)>>))
    [] OTHER                                  -> Parsed("throw",     JUndefined)

\* JSON.stringify({ bubbles: [FAILURE_RESPONSE] })
StringifyFailure == "{\"bubbles\":[\"... ummmmm\"]}"

\* reading a property of null throws a TypeError
ReadThrows(p) == p.top = "null"
\* assigning a property of a primitive throws a TypeError in strict mode
\* (the functions are ES modules, hence strict)
AssignThrows(p) == p.top = "primitive"


(***************************************************************************)
(* String helpers of the response interpreter.                             *)
(***************************************************************************)
\* stand-ins for the two emoji the code uses as speaker labels
ANGEL == "(angel)"
DEVIL == "(devil)"
Blank == {" ", "\n"}

\* String.prototype.toLowerCase on one token (the /i flag of the label regex)
LowerToken(tok) ==
  CASE tok \in {"Yin", "YIN"}   -> "yin"
    [] tok \in {"Yang", "YANG"} -> "yang"
    [] OTHER                    -> tok

HasPrefixCI(s, pre) ==
  /\ Len(s) >= Len(pre)
  /\ \A i \in 1..Len(pre) : LowerToken(s[i]) = pre[i]

RECURSIVE TrimStart(_)
TrimStart(s) == IF s # <<>> /\ Head(s) \in Blank THEN TrimStart(Tail(s)) ELSE s

RECURSIVE TrimEnd(_)
TrimEnd(s) ==
  IF s # <<>> /\ s[Len(s)] \in Blank THEN TrimEnd(SubSeq(s, 1, Len(s) - 1)) ELSE s

\* String.prototype.trim
Trim(s) == TrimEnd(TrimStart(s))

\* bubble.replace(/^<angel> yin:\s*|^<devil>yang:\s*/i, '')
StripLabel(s) ==
  IF HasPrefixCI(s, <<ANGEL, " ", "yin", ":">>)
    THEN TrimStart(SubSeq(s, 5, Len(s)))
  ELSE IF HasPrefixCI(s, <<DEVIL, "yang", ":">>)
    THEN TrimStart(SubSeq(s, 4, Len(s)))
  ELSE s

(***************************************************************************)
(* Response interpreters: raw model text -> responseJson.                  *)
(***************************************************************************)
Sentinel(line) == Parsed("object", JArray(<<JString(line)>>))

\* mutant: an empty bubbles array is returned as it is
InterpretLoop_KeepsEmpty(text) ==
  LET p  == JSONparse(text)
      b1 == IF ~Truthy(p.bubbles) THEN JArray(<<>>) ELSE p.bubbles
  IN  IF p.top = "throw" \/ ReadThrows(p) THEN Sentinel(PARSE_FAILURE_LOOP)
      ELSE IF ~Truthy(p.bubbles) /\ AssignThrows(p) THEN Sentinel(PARSE_FAILURE_LOOP)
      ELSE Parsed(p.top, b1)

\* yinYang.ts invokeLLM, the try/catch around JSON.parse
InterpretLoop(text) ==
  LET p  == JSONparse(text)
      b1 == IF ~Truthy(p.bubbles) THEN JArray(<<>>) ELSE p.bubbles
      b2 == IF IsArray(b1) /\ Len(b1.items) = 0
              THEN JArray(<<JString(FAILURE_RESPONSE)>>) ELSE b1
  IN  IF p.top = "throw" \/ ReadThrows(p) THEN Sentinel(PARSE_FAILURE_LOOP)
      ELSE IF ~Truthy(p.bubbles) /\ AssignThrows(p) THEN Sentinel(PARSE_FAILURE_LOOP)
      ELSE Parsed(p.top, b2)

\* mutant: the parsed reply is returned without the empty-bubbles repair
InterpretRetry_NoRepair(text) ==
  LET p == JSONparse(text)
  IN  IF p.top = "throw" \/ ReadThrows(p) THEN Sentinel(PARSE_FAILURE_RETRY) ELSE p

\* yang.ts chatResponse, "Parse response"
InterpretRetry(text) ==
  LET p == JSONparse(text)
  IN  IF p.top = "throw" \/ ReadThrows(p) THEN Sentinel(PARSE_FAILURE_RETRY)
      ELSE IF ~HasLength(p.bubbles)
        THEN IF AssignThrows(p) THEN Sentinel(PARSE_FAILURE_RETRY)
             ELSE Parsed(p.top, JArray(<<JString(FAILURE_RESPONSE)>>))
      ELSE p

\* part_003 chatResponse, "Parse response": as above, then every bubble is
\* stripped of a speaker label and trimmed; .map on a non-array and .replace
\* on a non-string throw a TypeError into the same catch
InterpretGroup(text) ==
  LET p == JSONparse(text)
      b == IF ~HasLength(p.bubbles)
             THEN JArray(<<JString(FAILURE_RESPONSE)>>) ELSE p.bubbles
  IN  IF p.top = "throw" \/ ReadThrows(p) THEN Sentinel(PARSE_FAILURE_RETRY)
      ELSE IF ~HasLength(p.bubbles) /\ AssignThrows(p) THEN Sentinel(PARSE_FAILURE_RETRY)
      ELSE IF ~IsArray(b) \/ \E i \in 1..Len(b.items) : b.items[i].t # "string"
        THEN Sentinel(PARSE_FAILURE_RETRY)
      ELSE Parsed(p.top,
             JArray([i \in 1..Len(b.items) |-> JString(Trim(StripLabel(b.items[i].s)))]))

Interpret(r, text) ==
  CASE r = "loop"  -> InterpretLoop(text)
    [] r = "retry" -> InterpretRetry(text)
    [] r = "group" -> InterpretGroup(text)

\* the handler's res.json({ bubbles: Array.isArray(b) ? b : b ? [b] : [] })
WrapBubbles(rj) ==
  IF IsArray(rj.bubbles) THEN rj.bubbles.items
  ELSE IF Truthy(rj.bubbles) THEN <<rj.bubbles>>
  ELSE <<>>


(***************************************************************************)
(* History field of the multipart form.                                    *)
(* An element of the JSON array: jstype is typeof (with null apart),       *)
(* hasRole / hasParts say whether the keys are present, role is the role   *)
(* string, text is parts[0].text ("" when parts has no first text) and     *)
(* personality the optional personality key ("" when absent).              *)
(***************************************************************************)
Turn(role, text, personality) ==
  [jstype |-> "object", hasRole |-> TRUE, role |-> role, hasParts |-> TRUE,
   text |-> text, personality |-> personality]

Hello == Turn("user", "Hello", "")

Items ==
  { Turn("user", "hi", ""), Turn("model", "yo", ""), Turn("assistant", "ok", ""),
    Turn("system", "sys", ""), Turn("model", "", ""),
    Turn("model", "zen", "yin"), Turn("model", "lit", "yang"),
    [Turn("user", "hi", "") EXCEPT !.hasRole = FALSE, !.role = "undefined"],
    [Turn("user", "", "") EXCEPT !.hasParts = FALSE],
    [Turn("undefined", "", "") EXCEPT !.jstype = "null", !.hasRole = FALSE, !.hasParts = FALSE],
    [Turn("undefined", "", "") EXCEPT !.jstype = "number", !.hasRole = FALSE, !.hasParts = FALSE] }

RECURSIVE SeqsUpTo(_, _)
SeqsUpTo(S, k) ==
  IF k = 0 THEN {<<>>}
  ELSE LET shorter == SeqsUpTo(S, k - 1)
       IN  shorter \cup {Append(q, x) : q \in {r \in shorter : Len(r) = k - 1}, x \in S}

\* the value of the history field: absent, not JSON, JSON but no array, an array
HistoryField(kind, items) == [kind |-> kind, items |-> items]
HistoryInputs(k) ==
  {HistoryField("absent", <<>>), HistoryField("badjson", <<>>), HistoryField("notarray", <<>>)}
    \cup {HistoryField("array", q) : q \in SeqsUpTo(Items, k)}

\* mutant: the assistant role is not mapped onto model
CanonRole_Unmapped(item) == item.role

\* item.role === "assistant" ? "model" : item.role
\* mutant: every turn is given the role model
CanonRole_AllModel(item) == "model"

CanonRole(item) == IF item.role = "assistant" THEN "model" ELSE item.role

\* the validation of yinYang.ts / yang.ts: every element is a non-null object
\* with a role and a parts key
IsContent(item) == item.jstype = "object" /\ item.hasRole /\ item.hasParts

Accepted(hist) == [ok |-> TRUE, hist |-> hist]
Rejected == [ok |-> FALSE, hist |-> <<>>]

\* mutant: the placeholder turn is added to an empty history only
EnsureUserFirst_EmptyOnly(h) == IF Len(h) = 0 THEN <<Hello>> ELSE h

\* chatHistory.unshift(Hello) when empty or not starting with a user turn
EnsureUserFirst(h) ==
  IF Len(h) = 0 \/ h[1].role # "user" THEN <<Hello>> \o h ELSE h

\* mutant: a leading model turn is kept
NormalizeStrict_NoStrip(f) ==
  IF f.kind \in {"badjson", "notarray"} THEN Rejected
  ELSE IF \E i \in 1..Len(f.items) : ~IsContent(f.items[i]) THEN Rejected
  ELSE LET mapped == [i \in 1..Len(f.items) |-> [f.items[i] EXCEPT !.role = CanonRole(f.items[i])]]
       IN  Accepted(EnsureUserFirst(mapped))

\* mutant: the first two turns are removed when both are model turns
NormalizeStrict_StripAll(f) ==
  IF f.kind \in {"badjson", "notarray"} THEN Rejected
  ELSE IF \E i \in 1..Len(f.items) : ~IsContent(f.items[i]) THEN Rejected
  ELSE LET mapped == [i \in 1..Len(f.items) |-> [f.items[i] EXCEPT !.role = CanonRole(f.items[i])]]
           once   == IF Len(mapped) > 0 /\ mapped[1].role = "model"
                       THEN Tail(mapped) ELSE mapped
           twice  == IF Len(mapped) > 0 /\ mapped[1].role = "model"
                        /\ Len(once) > 0 /\ once[1].role = "model"
                       THEN Tail(once) ELSE once
       IN  Accepted(EnsureUserFirst(twice))

\* the "history" branch of the field handler, yinYang.ts:187-217 (the same
\* text in yang.ts:432-462)
NormalizeStrict(f) ==
  IF f.kind \in {"badjson", "notarray"} THEN Rejected
  ELSE IF \E i \in 1..Len(f.items) : ~IsContent(f.items[i]) THEN Rejected
  ELSE LET mapped   == [i \in 1..Len(f.items) |-> [f.items[i] EXCEPT !.role = CanonRole(f.items[i])]]
           stripped == IF Len(mapped) > 0 /\ mapped[1].role = "model"
                         THEN Tail(mapped) ELSE mapped
       IN  Accepted(EnsureUserFirst(stripped))

\* msg.parts?.[0]?.text
HasText(item) == item.hasParts /\ item.text # ""

\* rawHistory.filter(msg => msg.parts?.[0]?.text)
RECURSIVE FilterText(_)
FilterText(q) ==
  IF q = <<>> THEN <<>>
  ELSE IF HasText(Head(q)) THEN <<Head(q)>> \o FilterText(Tail(q))
  ELSE FilterText(Tail(q))

\* the "history" branch of part_003:159-196: no shape check; messages without
\* text are dropped; msg.parts on a null element throws a TypeError
NormalizeGroup(f) ==
  IF f.kind \in {"badjson", "notarray"} THEN Rejected
  ELSE IF \E i \in 1..Len(f.items) : f.items[i].jstype = "null" THEN Rejected
  ELSE LET kept   == FilterText(f.items)
           mapped == [i \in 1..Len(kept) |-> [kept[i] EXCEPT !.role = CanonRole(kept[i])]]
       IN  Accepted(EnsureUserFirst(mapped))

\* the field handler runs only when the form has a history field; without
\* one chatHistory keeps its initial value []
ParseHistory(r, f) ==
  IF f.kind = "absent" THEN Accepted(<<>>)
  ELSE IF r = "group" THEN NormalizeGroup(f)
  ELSE NormalizeStrict(f)


(***************************************************************************)
(* Request composer: the parts of the new user message.                    *)
(***************************************************************************)
TextPart(s)   == [kind |-> "text", text |-> s, data |-> 0]
ImagePart(i)  == [kind |-> "inlineData", text |-> <<>>, data |-> i]
ImageParts(k) == [i \in 1..k |-> ImagePart(i)]

DESCRIBE_LOOP  == <<"Describe what you see in this image in detail and provide thoughtful commentary.">>
DESCRIBE_RETRY == <<"Describe what you see and provide thoughtful commentary.">>

Other(p) == IF p = "yin" THEN "yang" ELSE "yin"
Emoji(p) == IF p = "yin" THEN ANGEL ELSE DEVIL

\* generateWithModel, cleanHistory: the label written in front of the text of
\* a model turn of personality p, `${emoji}: `
HistoryLabel(p) == <<Emoji(p), ":", " ">>

\* part_003 analyzeConversationFlow; _personality is the personality key the
\* history branch copied from the message
IsGroupChat(hist, p) ==
  \E i \in 1..Len(hist) : hist[i].role = "model" /\ hist[i].personality = Other(p)
LastPersonality(hist) ==
  IF Len(hist) > 0 /\ hist[Len(hist)].role = "model" THEN hist[Len(hist)].personality ELSE ""
IsRespondingToOther(hist, p) == LastPersonality(hist) = Other(p)

\* mutant: the group-chat context line leaves the prompt out
GroupPrompt_NoPrompt(hist, p, prompt) == <<"[Group Chat]">>

GroupPrompt(hist, p, prompt) ==
  IF IsRespondingToOther(hist, p)
    THEN <<"[Group Chat: User just asked \"">> \o prompt
           \o <<"\" - the last message was from ", Emoji(LastPersonality(hist)), " (",
                LastPersonality(hist), "). You can respond to the user, react to ",
                Emoji(LastPersonality(hist)), "'s message, or both.]">>
    ELSE <<"[Group Chat: User said \"">> \o prompt \o <<"\"]">>

\* the messageParts of chatResponse: yinYang.ts:287-296, yang.ts:532-538,
\* part_003:295-309
ComposeMessage(r, hist, p, prompt, images) ==
  LET textParts ==
        IF Trim(prompt) # <<>>
          THEN IF r = "group" /\ IsGroupChat(hist, p)
                 THEN <<TextPart(GroupPrompt(hist, p, prompt))>>
                 ELSE <<TextPart(prompt)>>
        ELSE IF Len(images) > 0
          THEN <<TextPart(IF r = "loop" THEN DESCRIBE_LOOP ELSE DESCRIBE_RETRY)>>
        ELSE <<>>
  IN  textParts \o images

(***************************************************************************)
(* One request to the chat endpoint.                                       *)
(***************************************************************************)
VARIABLES
  rev,          \* the revision of the endpoint that serves the request
  pc,           \* where the handler is
  histIn,       \* the history field of the form
  personality,  \* the personality selected by the form
  userPrompt,   \* the prompt field
  imageParts,   \* the accepted images
  chatHistory,  \* the history handed to startChat
  messageParts, \* the parts handed to sendMessage
  tier,         \* the model tier of the current attempt
  attempts,     \* the retry counter of the current tier
  calls,        \* the model calls that have settled, oldest first
  delays,       \* the backoff delays started, oldest first
  responseText, \* the raw text chatResponse returns
  responseJson, \* the interpreted reply chatResponse returns
  response      \* the HTTP response

chatVars == <<rev, pc, histIn, personality, userPrompt, imageParts, chatHistory,
              messageParts, tier, attempts, calls, delays, responseText,
              responseJson, response>>

(***************************************************************************)
(* One call of generateCaption (caption.ts:534-608): its sub-tasks and the *)
(* Promise.all that aggregates them.                                       *)
(***************************************************************************)
VARIABLES
  capPersonality, \* the personality generateCaption is called with
  prevPhoto,      \* prevPhotoDescription ("" when not supplied)
  tasks,          \* the generateContentWithRetry call of each sub-task
  agg,            \* the promise generateCaption returns
  aggValue        \* the object it resolves to

capVars == <<capPersonality, prevPhoto, tasks, agg, aggValue>>

(***************************************************************************)
(* One HTTP request from the handler's first line to the launch of its     *)
(* model calls: authentication, the fields and files of the form.          *)
(***************************************************************************)
VARIABLES
  endpoint,         \* the handler that serves the request
  method,           \* the HTTP method
  authHeader,       \* the Authorization header
  personalityField, \* the personality field of the form ("absent": none)
  promptField,      \* the prompt field
  prevField,        \* the previous-photo description ("absent": none)
  body,             \* the file parts of the multipart body, as received
  rq,               \* where the handler is
  uid,              \* what authenticate returned ("none": not called or null)
  parsed,           \* the form parser has been started
  reqPersonality,   \* the personality the handler works with
  streams,          \* the file stream of each file part
  chunks,           \* the chunks each file stream has emitted so far
  reqImages,        \* imageParts
  modelCalls,       \* the model calls launched
  resStatus,        \* the status of the HTTP response (0: none yet)
  historyField,     \* the history field of the form: absent, valid, rejected
  sends             \* the number of calls of res.send / res.json

reqVars == <<endpoint, method, authHeader, personalityField, promptField, prevField, body,
             rq, uid, parsed, reqPersonality, streams, chunks, reqImages, modelCalls,
             resStatus, historyField, sends>>

(***************************************************************************)
(* One call of withRetry on its own, with any configuration and any        *)
(* operation.                                                              *)
(***************************************************************************)
VARIABLES
  retryConfig,    \* config
  retryPc,        \* where withRetry is
  retryAttempts,  \* attempts
  operationCalls, \* the invocations of operation that have settled, oldest first
  retryDelays,    \* the delays of the timers started, oldest first
  retryResult     \* what the promise of withRetry settled with

wrVars == <<retryConfig, retryPc, retryAttempts, operationCalls, retryDelays, retryResult>>

vars == <<chatVars, capVars, reqVars, wrVars>>

NoReply    == Parsed("none", JUndefined)
NoResponse == [status |-> 0, body |-> "none", bubbles |-> <<>>]

Prompts == {<<>>, <<" ">>, <<"hi">>}

\* history fields tried with a whole request
RequestHistories ==
  { HistoryField("absent", <<>>), HistoryField("badjson", <<>>),
    HistoryField("notarray", <<>>), HistoryField("array", <<>>),
    HistoryField("array", <<Turn("user", "hi", "")>>),
    HistoryField("array", <<[Turn("user", "", "") EXCEPT !.hasParts = FALSE]>>),
    HistoryField("array", <<Turn("user", "hi", ""), Turn("model", "zen", "yin")>>),
    HistoryField("array", <<Turn("user", "hi", ""), Turn("model", "lit", "yang"),
                            Turn("user", "hi", "")>>) }

\* what a model call settles with: a text, or an error carrying an HTTP
\* status (0: an error without a status property)
ErrorStatuses == {OVERLOADED, 400, 0}
Outcomes ==
  {[ok |-> TRUE, status |-> 200, text |-> x] : x \in RawTexts}
    \cup {[ok |-> FALSE, status |-> s, text |-> ""] : s \in ErrorStatuses}

InitIdle ==
  /\ chatHistory = <<>>
  /\ messageParts = <<>>
  /\ tier = "none"
  /\ attempts = 0
  /\ calls = <<>>
  /\ delays = <<>>
  /\ responseText = ""
  /\ responseJson = NoReply
  /\ response = NoResponse

\* await processFormDataAndImages(req): the promise resolves with the
\* normalized history or rejects with the error of the history branch
ProcessForm ==
  /\ pc = "form"
  /\ LET r == ParseHistory(rev, histIn)
     IN  /\ chatHistory' = r.hist
         /\ pc' = IF r.ok THEN "chat" ELSE "threw"
  /\ UNCHANGED <<rev, histIn, personality, userPrompt, imageParts, messageParts,
                 tier, attempts, calls, delays, responseText, responseJson, response>>
  /\ UNCHANGED <<capVars, reqVars, wrVars>>

\* chatResponse up to its first model call
StartChat ==
  /\ pc = "chat"
  /\ messageParts' = ComposeMessage(rev, chatHistory, personality, userPrompt, imageParts)
  /\ tier' = "primary"
  /\ attempts' = 0
  /\ pc' = "call"
  /\ UNCHANGED <<rev, histIn, personality, userPrompt, imageParts, chatHistory,
                 calls, delays, responseText, responseJson, response>>
  /\ UNCHANGED <<capVars, reqVars, wrVars>>

Call(t, status) == [tier |-> t, status |-> status]

\* mutant: after a retry the reply is the filler line, whatever the text
Return_ByAttempt(text, json) ==
  /\ responseText' = text
  /\ responseJson' = IF calls # <<>> THEN Sentinel(FAILURE_RESPONSE) ELSE json
  /\ pc' = "returned"

\* chatResponse returns { responseText, responseJson }
Return(text, json) ==
  /\ responseText' = text
  /\ responseJson' = json
  /\ pc' = "returned"

\* mutant: the retry budget ends one attempt early
WithRetryRethrows_OffByOne(status, n, maxRetries) ==
  status # OVERLOADED \/ n + 1 >= maxRetries

\* mutant: every error is retried, whatever its status
WithRetryRethrows_AnyStatus(status, n, maxRetries) == n >= maxRetries

\* mutant: the catch block looks at the status only
WithRetryRethrows_StatusOnly(status, n, maxRetries) == status # OVERLOADED

\* utils/modelRetry.ts withRetry: the catch block rethrows
WithRetryRethrows(status, n, maxRetries) == status # OVERLOADED \/ n >= maxRetries

\* mutant: the delay never grows
WithRetryDelay_Constant(config, n) == config.delayMs

\* utils/modelRetry.ts withRetry: the backoff delay after the n-th failure
WithRetryDelay(config, n) ==
  IF config.exponentialBackoff THEN config.delayMs * n ELSE config.delayMs

\* mutant: the failure of the fallback withRetry is not caught
RetryFailed_Uncaught ==
  IF tier = "primary"
    THEN /\ tier' = "fallback"
         /\ attempts' = 0
         /\ pc' = "call"
         /\ UNCHANGED <<responseText, responseJson>>
    ELSE /\ pc' = "threw"
         /\ UNCHANGED <<tier, attempts, responseText, responseJson>>

\* the catch blocks of chatResponse (yang.ts:558-567, part_003:398-409): a
\* failed primary withRetry starts withRetry on the fallback model, a failed
\* fallback withRetry yields the fixed reply, which is then interpreted
RetryFailed ==
  IF tier = "primary"
    THEN /\ tier' = "fallback"
         /\ attempts' = 0
         /\ pc' = "call"
         /\ UNCHANGED <<responseText, responseJson>>
    ELSE /\ Return(StringifyFailure, Interpret(rev, StringifyFailure))
         /\ UNCHANGED <<tier, attempts>>

\* mutant: a reply that is no JSON counts as a failed attempt
RetrySettle_RetriesMalformed ==
  /\ rev \in WithRetryRevisions
  /\ pc = "call"
  /\ \E o \in Outcomes :
       /\ calls' = Append(calls, Call(tier, o.status))
       /\ IF o.ok /\ ~(JSONparse(o.text).top = "throw" /\ attempts + 1 < RETRY_CONFIG[tier].maxRetries)
            THEN /\ Return(o.text, Interpret(rev, o.text))
                 /\ UNCHANGED <<tier, attempts, delays>>
          ELSE IF ~o.ok /\ WithRetryRethrows(o.status, attempts + 1, RETRY_CONFIG[tier].maxRetries)
            THEN /\ RetryFailed
                 /\ UNCHANGED delays
          ELSE /\ attempts' = attempts + 1
               /\ delays' = Append(delays, WithRetryDelay(RETRY_CONFIG[tier], attempts + 1))
               /\ pc' = "wait"
               /\ UNCHANGED <<tier, responseText, responseJson>>
  /\ UNCHANGED <<rev, histIn, personality, userPrompt, imageParts, chatHistory,
                 messageParts, response>>
  /\ UNCHANGED <<capVars, reqVars, wrVars>>

\* a model call of the withRetry-based chatResponse settles
RetrySettle ==
  /\ rev \in WithRetryRevisions
  /\ pc = "call"
  /\ \E o \in Outcomes :
       /\ calls' = Append(calls, Call(tier, o.status))
       /\ IF o.ok
            THEN /\ Return(o.text, Interpret(rev, o.text))
                 /\ UNCHANGED <<tier, attempts, delays>>
          ELSE IF WithRetryRethrows(o.status, attempts + 1, RETRY_CONFIG[tier].maxRetries)
            THEN /\ RetryFailed
                 /\ UNCHANGED delays
          ELSE /\ attempts' = attempts + 1
               /\ delays' = Append(delays, WithRetryDelay(RETRY_CONFIG[tier], attempts + 1))
               /\ pc' = "wait"
               /\ UNCHANGED <<tier, responseText, responseJson>>
  /\ UNCHANGED <<rev, histIn, personality, userPrompt, imageParts, chatHistory,
                 messageParts, response>>
  /\ UNCHANGED <<capVars, reqVars, wrVars>>

\* the backoff timer of withRetry fires: the while condition is tested, the
\* operation runs again, or the loop ends and withRetry throws
RetryWake ==
  /\ rev \in WithRetryRevisions
  /\ pc = "wait"
  /\ IF attempts < RETRY_CONFIG[tier].maxRetries
       THEN /\ pc' = "call"
            /\ UNCHANGED <<tier, attempts, responseText, responseJson>>
       ELSE RetryFailed
  /\ UNCHANGED <<rev, histIn, personality, userPrompt, imageParts, chatHistory,
                 messageParts, calls, delays, response>>
  /\ UNCHANGED <<capVars, reqVars, wrVars>>

\* mutant: the primary loop gives up one attempt early
MaxRetries_Short(t) == IF t = "primary" THEN MAX_PRIMARY_RETRIES - 1 ELSE MAX_FALLBACK_RETRIES

MaxRetries(t) == IF t = "primary" THEN MAX_PRIMARY_RETRIES ELSE MAX_FALLBACK_RETRIES

\* the catch blocks of the hand-written loops rethrow
LoopRethrows(status) == status # OVERLOADED

\* the delay of the hand-written loops after the n-th 503 of a tier
LoopDelay(t, n) == IF t = "primary" THEN RETRY_DELAY_MS * n ELSE RETRY_DELAY_MS

\* a model call of yinYang.ts chatResponse settles
LoopSettle ==
  /\ rev = "loop"
  /\ pc = "call"
  /\ \E o \in Outcomes :
       /\ calls' = Append(calls, Call(tier, o.status))
       /\ IF o.ok
            THEN /\ Return(o.text, Interpret(rev, o.text))
                 /\ UNCHANGED <<tier, attempts, delays>>
          ELSE IF LoopRethrows(o.status)
            THEN /\ pc' = "threw"
                 /\ UNCHANGED <<tier, attempts, delays, responseText, responseJson>>
          ELSE /\ attempts' = attempts + 1
               /\ delays' = Append(delays, LoopDelay(tier, attempts + 1))
               /\ pc' = "wait"
               /\ UNCHANGED <<tier, responseText, responseJson>>
  /\ UNCHANGED <<rev, histIn, personality, userPrompt, imageParts, chatHistory,
                 messageParts, response>>
  /\ UNCHANGED <<capVars, reqVars, wrVars>>

\* the wait of yinYang.ts chatResponse ends: the while condition is tested
LoopWake ==
  /\ rev = "loop"
  /\ pc = "wait"
  /\ IF attempts < MaxRetries(tier)
       THEN /\ pc' = "call"
            /\ UNCHANGED <<tier, attempts, responseText, responseJson>>
     ELSE IF tier = "primary"
       THEN /\ tier' = "fallback"
            /\ attempts' = 0
            /\ pc' = "call"
            /\ UNCHANGED <<responseText, responseJson>>
     ELSE /\ Return(StringifyFailure, Sentinel(FAILURE_RESPONSE))
          /\ UNCHANGED <<tier, attempts>>
  /\ UNCHANGED <<rev, histIn, personality, userPrompt, imageParts, chatHistory,
                 messageParts, calls, delays, response>>
  /\ UNCHANGED <<capVars, reqVars, wrVars>>

\* the handler answers: res.json on a reply, res.status(500) in its catch
Respond ==
  /\ pc \in {"returned", "threw"}
  /\ response' = IF pc = "returned"
                   THEN [status |-> 200, body |-> "json", bubbles |-> WrapBubbles(responseJson)]
                   ELSE [status |-> 500, body |-> "text", bubbles |-> <<>>]
  /\ pc' = "sent"
  /\ UNCHANGED <<rev, histIn, personality, userPrompt, imageParts, chatHistory,
                 messageParts, tier, attempts, calls, delays, responseText, responseJson>>
  /\ UNCHANGED <<capVars, reqVars, wrVars>>

(***************************************************************************)
(* generateCaption and generateContentWithRetry, caption.ts:534-678.       *)
(***************************************************************************)
CaptionTasks == {"caption", "description", "transitionalComment"}

\* mutant: the caption fails to the empty string too
FAILURE_RESPONSES_AllEmpty ==
  [caption |-> "", description |-> "", transitionalComment |-> ""]

FAILURE_RESPONSES ==
  [caption |-> "caption error", description |-> "", transitionalComment |-> ""]

\* the text generateContent returns for a sub-task
ModelText(k) ==
  CASE k = "caption"             -> "a caption"
    [] k = "description"         -> "a description"
    [] k = "transitionalComment" -> "a transition"

CaptionStatuses == {200, OVERLOADED, 400}

\* a generateContentWithRetry call whose first model call is in flight
Launched == [st |-> "call", tier |-> "primary", attempts |-> 0, calls |-> <<>>, value |-> ""]
\* Promise.resolve("")
NotLaunched == [st |-> "resolved", tier |-> "none", attempts |-> 0, calls |-> <<>>, value |-> ""]

\* personalityModels[personality][modelType].generateContent(parts) settled
CaptionCall(p, t, status) == [model |-> p, tier |-> t, status |-> status]

Settled(task) == task.st \in {"resolved", "rejected"}

\* Promise.all over the sub-tasks: rejected as soon as one of them is,
\* fulfilled once all of them are
PromiseAll(ts) ==
  IF \E k \in CaptionTasks : ts[k].st = "rejected" THEN "rejected"
  ELSE IF \A k \in CaptionTasks : ts[k].st = "resolved" THEN "resolved"
  ELSE "pending"

\* { caption, description, transitionalComment: transitionalComment || undefined }
CaptionResult(ts) ==
  [caption |-> ts["caption"].value,
   description |-> ts["description"].value,
   transitionalComment |-> ts["transitionalComment"].value,
   hasTransitionalComment |-> ts["transitionalComment"].value # ""]

NoResult == [caption |-> "", description |-> "", transitionalComment |-> "",
             hasTransitionalComment |-> FALSE]

\* the promise of generateCaption follows its Promise.all; once settled it
\* stays as it is
Aggregate(ts) ==
  IF agg # "pending" THEN UNCHANGED <<agg, aggValue>>
  ELSE /\ agg' = PromiseAll(ts)
       /\ aggValue' = IF PromiseAll(ts) = "resolved" THEN CaptionResult(ts) ELSE aggValue

CaptionInputs ==
  /\ capPersonality \in {"yin", "yang"}
  /\ prevPhoto \in {"", "a beach"}
  /\ tasks = [k \in CaptionTasks |-> NotLaunched]
  /\ agg = "idle"
  /\ aggValue = NoResult

\* generateCaption up to its await: the sub-tasks are started one after the
\* other, each running to its first model call
GenerateCaption ==
  /\ agg = "idle"
  /\ tasks' = [k \in CaptionTasks |->
                 IF k = "transitionalComment" /\ prevPhoto = "" THEN NotLaunched
                 ELSE Launched]
  /\ agg' = "pending"
  /\ UNCHANGED <<capPersonality, prevPhoto, aggValue>>
  /\ UNCHANGED <<chatVars, reqVars, wrVars>>

\* mutant: the attempt counter is one variable shared by the sub-tasks
TaskSettle_SharedCounter ==
  /\ agg \notin {"off", "idle"}
  /\ \E k \in CaptionTasks, status \in CaptionStatuses :
       /\ tasks[k].st = "call"
       /\ LET task   == tasks[k]
              logged == [task EXCEPT !.calls = Append(@, CaptionCall(capPersonality, task.tier, status))]
              after  ==
                IF status = 200
                  THEN [logged EXCEPT !.st = "resolved", !.value = ModelText(k)]
                ELSE IF LoopRethrows(status)
                  THEN [logged EXCEPT !.st = "rejected"]
                ELSE [logged EXCEPT !.st = "wait", !.attempts = @ + 1]
              ts     == [j \in CaptionTasks |->
                          IF j = k THEN after
                          ELSE IF status = OVERLOADED /\ tasks[j].st \in {"call", "wait"}
                                  /\ tasks[j].attempts < MaxRetries(tasks[j].tier)
                            THEN [tasks[j] EXCEPT !.attempts = @ + 1]
                          ELSE tasks[j]]
          IN  /\ tasks' = ts
              /\ Aggregate(ts)
  /\ UNCHANGED <<capPersonality, prevPhoto>>
  /\ UNCHANGED <<chatVars, reqVars, wrVars>>

\* a model call of generateContentWithRetry settles
TaskSettle ==
  /\ agg \notin {"off", "idle"}
  /\ \E k \in CaptionTasks, status \in CaptionStatuses :
       /\ tasks[k].st = "call"
       /\ LET task   == tasks[k]
              logged == [task EXCEPT !.calls = Append(@, CaptionCall(capPersonality, task.tier, status))]
              after  ==
                IF status = 200
                  THEN [logged EXCEPT !.st = "resolved", !.value = ModelText(k)]
                ELSE IF LoopRethrows(status)
                  THEN [logged EXCEPT !.st = "rejected"]
                ELSE [logged EXCEPT !.st = "wait", !.attempts = @ + 1]
              ts     == [tasks EXCEPT ![k] = after]
          IN  /\ tasks' = ts
              /\ Aggregate(ts)
  /\ UNCHANGED <<capPersonality, prevPhoto>>
  /\ UNCHANGED <<chatVars, reqVars, wrVars>>

\* the backoff timer of a sub-task fires: the while condition is tested
TaskWake ==
  /\ agg \notin {"off", "idle"}
  /\ \E k \in CaptionTasks :
       /\ tasks[k].st = "wait"
       /\ LET task  == tasks[k]
              after ==
                IF task.attempts < MaxRetries(task.tier)
                  THEN [task EXCEPT !.st = "call"]
                ELSE IF task.tier = "primary"
                  THEN [task EXCEPT !.st = "call", !.tier = "fallback", !.attempts = 0]
                ELSE [task EXCEPT !.st = "resolved", !.value = FAILURE_RESPONSES[k]]
              ts    == [tasks EXCEPT ![k] = after]
          IN  /\ tasks' = ts
              /\ Aggregate(ts)
  /\ UNCHANGED <<capPersonality, prevPhoto>>
  /\ UNCHANGED <<chatVars, reqVars, wrVars>>

(***************************************************************************)
(* The HTTP handlers from their first line to the launch of the model      *)
(* calls.  "yinYang" is functions/yinYang.ts, "yinYangRetry" the handler   *)
(* of functions/yang.ts:339-581, "yin_yang" functions/yin_yang.ts:72-246,  *)
(* "yin_yangPhased" functions/yin_yang.ts:307-641, "yang"                  *)
(* functions/yang.ts:45-267, "caption" functions/caption.ts:330-678 and    *)
(* "captionLegacy" functions/caption.ts:93-268.                            *)
(***************************************************************************)
Endpoints ==
  {"yinYang", "yinYangRetry", "yin_yang", "yin_yangPhased", "yang", "caption",
   "captionLegacy",
   "handleDeletedPhoto"}
ChatEndpoints == {"yinYang", "yinYangRetry", "yin_yang", "yin_yangPhased", "yang"}
CaptionEndpoints == {"caption", "captionLegacy"}

\* the handlers that call authenticate before their try block
Authenticating == {"yinYang", "yinYangRetry", "yin_yang", "yin_yangPhased", "yang", "caption"}

\* the handlers whose file handler tests info.mimeType
ChecksMimeType == {"yinYang", "yinYangRetry", "yin_yang", "yin_yangPhased", "yang", "caption"}

allowedMimeTypes == {"image/jpeg", "image/png", "image/heif", "image/webp"}

\* the Authorization header: none, a bearer token that verifyIdToken rejects,
\* a bearer token it accepts
AuthHeaders == {"absent", "invalid", "valid"}

\* utils/auth.ts authenticate: the uid, or null after a 401 response
Authenticate(header) ==
  IF header = "valid" THEN [uid |-> "u1", status |-> 0]
  ELSE [uid |-> "none", status |-> 401]

PersonalityFields == {"absent", "yin", "YANG", "bob"}

\* the personality branch of the field handlers: val.toLowerCase() is kept
\* when it is yin or yang; the local starts as "yin"
ParsePersonality(field) ==
  IF field # "absent" /\ LowerToken(field) \in {"yin", "yang"}
    THEN LowerToken(field) ELSE "yin"

\* handleDeletedPhoto: const { personality = "yin" } = body
DestructurePersonality(field) == IF field = "absent" THEN "yin" ELSE field

\* the personality argument each handler passes on
UsedPersonality(e, field) ==
  CASE e = "captionLegacy"      -> "yin"
    [] e = "yang"               -> "yang"
    [] e = "handleDeletedPhoto" -> DestructurePersonality(field)
    [] OTHER                    -> ParsePersonality(field)

\* personality === "yin" ? yinModel : yangModel
ModelFor(p) == IF p = "yin" THEN "yin" ELSE "yang"

PrevFields == {"absent", "", "a beach"}

\* mutant: the transition comment is generated whatever was supplied
PrevSupplied_Always(prev) == TRUE

\* prevPhotoDescription ? ... : ...
PrevSupplied(prev) == prev \notin {"absent", ""}

\* the file parts a multipart body is made of
FileKinds ==
  { [name |-> "images", mimeType |-> "image/png",       payload |-> <<"a1", "a2">>],
    [name |-> "images", mimeType |-> "image/jpeg",      payload |-> <<"b1">>],
    [name |-> "images", mimeType |-> "application/pdf", payload |-> <<"c1">>],
    [name |-> "doc",    mimeType |-> "image/png",       payload |-> <<"d1">>] }

Bodies == SeqsUpTo(FileKinds, MaxFiles)

\* the "file" handler keeps the stream
Accepts(e, f) ==
  /\ f.name = "images"
  /\ e \in ChecksMimeType => f.mimeType \in allowedMimeTypes

\* { inlineData: { mimeType: info.mimeType, data: ... } }
\* mutant: only the chunk that arrived last is kept
BufferConcat_LastChunk(cs) == IF cs = <<>> THEN <<>> ELSE cs[Len(cs)]

\* Buffer.concat(chunks)
RECURSIVE BufferConcat(_)
BufferConcat(cs) == IF cs = <<>> THEN <<>> ELSE Head(cs) \o BufferConcat(Tail(cs))

\* buffer.toString("base64")
Base64(bytes) == [encoding |-> "base64", bytes |-> bytes]

\* the image part pushed on "end": the chunks collected so far, encoded
InlineData(mimeType, cs) ==
  ImagePart([mimeType |-> mimeType, payload |-> Base64(BufferConcat(cs))])

\* the image part of a file all of whose bytes arrived
FilePart(f) == ImagePart([mimeType |-> f.mimeType, payload |-> Base64(f.payload)])

\* the number of bytes a stream has emitted
RECURSIVE Emitted(_)
Emitted(cs) == IF cs = <<>> THEN 0 ELSE Len(Head(cs)) + Emitted(Tail(cs))

ModelCall(task, model, promptOf, parts) ==
  [task |-> task, model |-> model, promptOf |-> promptOf, parts |-> parts]

DEFAULT_CAPTION_PROMPT ==
  <<"Please generate a natural, engaging caption for this image that captures its essence and meaning.">>

\* the three generation tasks of generateCaption
CaptionCalls(e, p, prompt, prev, images) ==
  LET effective == IF e = "captionLegacy" \/ Trim(prompt) # <<>>
                     THEN (IF e = "captionLegacy" THEN prompt ELSE Trim(prompt))
                     ELSE DEFAULT_CAPTION_PROMPT
  IN  { ModelCall("caption", ModelFor(p), "none",
                  <<TextPart(<<"caption", "\n", "\n", "Context from user: ">> \o effective)>> \o images),
        ModelCall("description", ModelFor(p), "none",
                  <<TextPart(<<"description">>)>> \o images) }
      \cup (IF PrevSupplied(prev)
              THEN {ModelCall("transitionalComment", ModelFor(p), ModelFor(p),
                              <<TextPart(<<"transition", ModelFor(p), prev>>)>> \o images)}
              ELSE {})

\* chatSession.sendMessage(messageParts)
ChatCall(e, p, prompt, images) ==
  ModelCall("chat", p, "none",
            IF e = "yinYang" THEN ComposeMessage("loop", <<>>, p, prompt, images)
            ELSE IF e = "yinYangRetry" THEN ComposeMessage("retry", <<>>, p, prompt, images)
            ELSE <<TextPart(prompt)>> \o images)

\* the history field of the form: none, one the field handler accepts, one
\* it rejects (no JSON, no array, an element without role or parts)
HistoryFields == {"absent", "valid", "rejected"}

\* res.status(s).send(...) / res.json(...): the first call sends the response
Send(s) ==
  /\ resStatus' = IF sends = 0 THEN s ELSE resStatus
  /\ sends' = sends + 1

\* the first "file" handler of the phased handler saw a file named images
HasImages(b) == \E i \in 1..Len(b) : b[i].name = "images"

\* busboy emits "finish" when the form is parsed and every file stream it
\* handed out has ended
FinishFires == \A i \in 1..Len(body) : streams[i] \in {"skipped", "ended"}

RequestInputs ==
  /\ endpoint \in Endpoints
  /\ method \in {"POST", "GET"}
  /\ authHeader \in AuthHeaders
  /\ personalityField \in PersonalityFields
  /\ promptField \in Prompts
  /\ prevField \in PrevFields
  /\ body \in Bodies
  /\ historyField \in HistoryFields
  \* only the chat handlers read the history field
  /\ (endpoint \notin ChatEndpoints \/ method = "GET") => historyField = "absent"
  \* a request that is not a POST is sampled once; handleDeletedPhoto reads a
  \* JSON body, which has no file parts
  /\ method = "GET" =>
       personalityField = "absent" /\ promptField = <<>> /\ prevField = "absent" /\ body = <<>>
  /\ endpoint = "handleDeletedPhoto" => body = <<>>

RequestIdle ==
  /\ uid = "none"
  /\ parsed = FALSE
  /\ reqPersonality = "yin"
  /\ streams = [i \in 1..Len(body) |-> "unseen"]
  /\ chunks = [i \in 1..Len(body) |-> <<>>]
  /\ reqImages = <<>>
  /\ modelCalls = {}
  /\ resStatus = 0
  /\ sends = 0

\* the handler up to its try block: the method test and authenticate
Enter ==
  /\ rq = "start"
  /\ IF method # "POST"
       THEN /\ Send(405)
            /\ rq' = "done"
            /\ UNCHANGED uid
     ELSE IF endpoint \in Authenticating
       THEN /\ uid' = Authenticate(authHeader).uid
            /\ IF Authenticate(authHeader).uid = "none"
                 THEN Send(Authenticate(authHeader).status) /\ rq' = "done"
                 ELSE UNCHANGED <<resStatus, sends>> /\ rq' = "form"
     ELSE /\ rq' = "form"
          /\ UNCHANGED <<uid, resStatus, sends>>
  /\ UNCHANGED <<endpoint, method, authHeader, personalityField, promptField, prevField,
                 body, parsed, reqPersonality, streams, reqImages, modelCalls>>
  /\ UNCHANGED <<chatVars, capVars, wrVars, chunks, historyField>>

\* busboy is started and the field events are handled.  A rejected history
\* rejects the promise of the form (or throws out of bb.end) and the catch of
\* the handler answers 500; the field handler of the yang handler answers
\* 400 itself and returns, and the handler goes on
ParseFields ==
  /\ rq = "form"
  /\ endpoint # "handleDeletedPhoto"
  /\ parsed' = TRUE
  /\ reqPersonality' = UsedPersonality(endpoint, personalityField)
  /\ IF historyField # "rejected"
       THEN rq' = "files" /\ UNCHANGED <<resStatus, sends>>
     ELSE IF endpoint = "yang"
       THEN rq' = "files" /\ Send(400)
     ELSE rq' = "done" /\ Send(500)
  /\ UNCHANGED <<endpoint, method, authHeader, personalityField, promptField, prevField,
                 body, uid, streams, reqImages, modelCalls>>
  /\ UNCHANGED <<chatVars, capVars, wrVars, chunks, historyField>>

\* the "file" event of the next file part of the body
FileEvent ==
  /\ rq = "files"
  /\ \E k \in 1..Len(body) :
       /\ streams[k] = "unseen"
       /\ \A j \in 1..(k - 1) : streams[j] # "unseen"
       /\ streams' = [streams EXCEPT ![k] =
                          IF endpoint = "yin_yangPhased" THEN "ignored"
                          ELSE IF Accepts(endpoint, body[k]) THEN "open" ELSE "skipped"]
  /\ UNCHANGED <<endpoint, method, authHeader, personalityField, promptField, prevField,
                 body, rq, uid, parsed, reqPersonality, reqImages, modelCalls, resStatus>>
  /\ UNCHANGED <<chatVars, capVars, wrVars, chunks, historyField, sends>>

\* a "data" event of a file stream that was kept: the next bytes of the file
\* arrive as one chunk, which is pushed
StreamData ==
  /\ rq = "files"
  /\ \E i \in 1..Len(body) :
       /\ streams[i] = "open"
       /\ \E n \in 1..(Len(body[i].payload) - Emitted(chunks[i])) :
            chunks' = [chunks EXCEPT ![i] =
                         Append(@, SubSeq(body[i].payload, Emitted(chunks[i]) + 1,
                                          Emitted(chunks[i]) + n))]
  /\ UNCHANGED <<endpoint, method, authHeader, personalityField, promptField, prevField,
                 body, rq, uid, parsed, reqPersonality, streams, reqImages, modelCalls,
                 resStatus>>
  /\ UNCHANGED <<chatVars, capVars, wrVars, historyField, sends>>

\* the "error" event of a file stream that was kept: its promise rejects,
\* processFormDataAndImages rejects and the catch of the handler answers 500
StreamError ==
  /\ rq = "files"
  /\ \E i \in 1..Len(body) :
       /\ streams[i] = "open"
       /\ streams' = [streams EXCEPT ![i] = "failed"]
  /\ Send(500)
  /\ rq' = "done"
  /\ UNCHANGED <<endpoint, method, authHeader, personalityField, promptField, prevField,
                 body, uid, parsed, reqPersonality, chunks, reqImages, modelCalls>>
  /\ UNCHANGED <<chatVars, capVars, wrVars, historyField>>

\* the "end" event of a file stream that was kept, after its last chunk
StreamEnd ==
  /\ rq = "files"
  /\ \E i \in 1..Len(body) :
       /\ streams[i] = "open"
       /\ Emitted(chunks[i]) = Len(body[i].payload)
       /\ streams' = [streams EXCEPT ![i] = "ended"]
       /\ reqImages' = Append(reqImages, InlineData(body[i].mimeType, chunks[i]))
  /\ UNCHANGED <<endpoint, method, authHeader, personalityField, promptField, prevField,
                 body, rq, uid, parsed, reqPersonality, modelCalls, resStatus>>
  /\ UNCHANGED <<chatVars, capVars, wrVars, chunks, historyField, sends>>

\* "finish" and Promise.all(filePromises) are over: the handler validates
\* and launches its model calls
Launch ==
  /\ rq = "files"
  /\ IF endpoint = "yin_yangPhased"
       THEN /\ \A i \in 1..Len(body) : streams[i] # "unseen"
            /\ HasImages(body) => FinishFires
       ELSE FinishFires
  /\ IF endpoint \in CaptionEndpoints /\ Len(reqImages) = 0
       THEN /\ Send(400)
            /\ rq' = "done"
            /\ UNCHANGED modelCalls
       ELSE /\ modelCalls' =
                 (IF endpoint \in ChatEndpoints
                    THEN {ChatCall(endpoint, reqPersonality, promptField, reqImages)} ELSE {})
                 \cup
                 (IF endpoint \in CaptionEndpoints \/ (endpoint = "yang" /\ Len(reqImages) > 0)
                    THEN CaptionCalls(endpoint, reqPersonality, promptField, prevField, reqImages)
                    ELSE {})
            /\ rq' = "called"
            /\ UNCHANGED <<resStatus, sends>>
  /\ UNCHANGED <<endpoint, method, authHeader, personalityField, promptField, prevField,
                 body, uid, parsed, reqPersonality, streams, reqImages>>
  /\ UNCHANGED <<chatVars, capVars, wrVars, chunks, historyField>>

\* handleDeletedPhoto: the fields of req.body are validated and
\* generateTransitionalCommentForDeletion is called
DeletedPhoto ==
  /\ rq = "form"
  /\ endpoint = "handleDeletedPhoto"
  /\ reqPersonality' = UsedPersonality(endpoint, personalityField)
  /\ IF ~PrevSupplied(prevField)
       THEN /\ Send(400)
            /\ rq' = "done"
            /\ UNCHANGED modelCalls
       ELSE /\ modelCalls' =
                 {ModelCall("transitionalComment",
                            ModelFor(UsedPersonality(endpoint, personalityField)),
                            ModelFor(UsedPersonality(endpoint, personalityField)),
                            <<TextPart(<<"transition", ModelFor(UsedPersonality(endpoint, personalityField)), prevField>>)>>)}
            /\ rq' = "called"
            /\ UNCHANGED <<resStatus, sends>>
  /\ UNCHANGED <<endpoint, method, authHeader, personalityField, promptField, prevField,
                 body, uid, parsed, streams, reqImages>>
  /\ UNCHANGED <<chatVars, capVars, wrVars, chunks, historyField>>

\* the model calls settle and the handler answers: res.json, or
\* res.status(500) in its catch
Reply ==
  /\ rq = "called"
  /\ \E s \in {200, 500} :
       IF sends = 0 THEN Send(s)
       \* a response was sent already: res.json throws and the catch calls
       \* res.status(500).send, or the catch alone does
       ELSE /\ sends' = sends + (IF s = 200 THEN 2 ELSE 1)
            /\ UNCHANGED resStatus
  /\ rq' = "done"
  /\ UNCHANGED <<endpoint, method, authHeader, personalityField, promptField, prevField,
                 body, uid, parsed, reqPersonality, streams, reqImages, modelCalls>>
  /\ UNCHANGED <<chatVars, capVars, wrVars, chunks, historyField>>

(***************************************************************************)
(* utils/modelRetry.ts: withRetry(operation, config, operationName).       *)
(***************************************************************************)
\* what the n-th invocation of operation settles with: the value it resolves
\* to, or the error it throws and the status property of that error
Settlement(n, ok, status, value) ==
  [call |-> n, ok |-> ok, status |-> status, value |-> value, generic |-> FALSE]

\* new Error(`All retries failed for ${operationName}`)
AllRetriesFailed ==
  [call |-> 0, ok |-> FALSE, status |-> 0, value |-> "", generic |-> TRUE]

NotSettled == [call |-> 0, ok |-> FALSE, status |-> 0, value |-> "", generic |-> FALSE]

\* what an invocation of operation can do
OperationOutcomes ==
  {[ok |-> TRUE, status |-> 200, value |-> v] : v \in {"zen", "lit"}}
    \cup {[ok |-> FALSE, status |-> s, value |-> ""] : s \in ErrorStatuses}

RetryConfigs ==
  [maxRetries : -1..MaxTries, delayMs : {RETRY_DELAY_MS}, exponentialBackoff : BOOLEAN]

WithRetryOff ==
  /\ retryConfig = RETRY_CONFIG.primary
  /\ retryPc = "off"
  /\ retryAttempts = 0
  /\ operationCalls = <<>>
  /\ retryDelays = <<>>
  /\ retryResult = NotSettled

\* the while condition: the operation is invoked, or the loop ends and the
\* generic error is thrown
WithRetryTest ==
  /\ retryPc = "test"
  /\ IF retryAttempts < retryConfig.maxRetries
       THEN /\ retryPc' = "await"
            /\ UNCHANGED retryResult
       ELSE /\ retryPc' = "rejected"
            /\ retryResult' = AllRetriesFailed
  /\ UNCHANGED <<retryConfig, retryAttempts, operationCalls, retryDelays>>
  /\ UNCHANGED <<chatVars, capVars, reqVars>>

\* the awaited operation settles: its value is returned, or the catch block
\* counts the failure and rethrows the error or starts the backoff timer
WithRetrySettle ==
  /\ retryPc = "await"
  /\ \E o \in OperationOutcomes :
       LET s == Settlement(Len(operationCalls) + 1, o.ok, o.status, o.value) IN
       /\ operationCalls' = Append(operationCalls, s)
       /\ IF o.ok
            THEN /\ retryPc' = "resolved"
                 /\ retryResult' = s
                 /\ UNCHANGED <<retryAttempts, retryDelays>>
            ELSE /\ retryAttempts' = retryAttempts + 1
                 /\ IF WithRetryRethrows(o.status, retryAttempts + 1, retryConfig.maxRetries)
                      THEN /\ retryPc' = "rejected"
                           /\ retryResult' = s
                           /\ UNCHANGED retryDelays
                      ELSE /\ retryPc' = "sleep"
                           /\ retryDelays' = Append(retryDelays,
                                                WithRetryDelay(retryConfig, retryAttempts + 1))
                           /\ UNCHANGED retryResult
  /\ UNCHANGED retryConfig
  /\ UNCHANGED <<chatVars, capVars, reqVars>>

\* the backoff timer fires and the loop goes round
WithRetryWake ==
  /\ retryPc = "sleep"
  /\ retryPc' = "test"
  /\ UNCHANGED <<retryConfig, retryAttempts, operationCalls, retryDelays, retryResult>>
  /\ UNCHANGED <<chatVars, capVars, reqVars>>

(***************************************************************************)
(* Specifications.                                                         *)
(***************************************************************************)
\* the values of the caption variables while no caption is generated
CaptionOff ==
  /\ capPersonality = "yin"
  /\ prevPhoto = ""
  /\ tasks = [k \in CaptionTasks |-> NotLaunched]
  /\ agg = "off"
  /\ aggValue = NoResult

\* the values of the chat variables while no chat request is served
ChatOff ==
  /\ rev = "loop"
  /\ histIn = HistoryField("absent", <<>>)
  /\ personality = "yin"
  /\ userPrompt = <<>>
  /\ imageParts = <<>>
  /\ pc = "off"
  /\ InitIdle

\* the values of the request variables while no handler front end runs
RequestOff ==
  /\ endpoint = "yinYang"
  /\ historyField = "absent"
  /\ method = "POST"
  /\ authHeader = "valid"
  /\ personalityField = "absent"
  /\ promptField = <<>>
  /\ prevField = "absent"
  /\ body = <<>>
  /\ rq = "off"
  /\ RequestIdle

\* a request to the chat endpoint
InitChat ==
  /\ CaptionOff
  /\ WithRetryOff
  /\ RequestOff
  /\ rev \in Revisions
  /\ histIn \in RequestHistories
  /\ personality \in {"yin", "yang"}
  /\ userPrompt \in Prompts
  /\ imageParts \in {ImageParts(k) : k \in 0..MaxImages}
  /\ pc = "form"
  /\ InitIdle

Next ==
  \/ ProcessForm
  \/ StartChat
  \/ RetrySettle
  \/ RetryWake
  \/ LoopSettle
  \/ LoopWake
  \/ Respond

Spec == InitChat /\ [][Next]_vars

\* the chat request when every model call settles and every backoff timer
\* fires: an awaited promise that settles resumes the function, and the event
\* loop runs every timer that is due
Fairness ==
  /\ WF_vars(StartChat)
  /\ WF_vars(RetrySettle)
  /\ WF_vars(RetryWake)
  /\ WF_vars(LoopSettle)
  /\ WF_vars(LoopWake)

SpecLive == InitChat /\ [][Next]_vars /\ Fairness

\* a call of generateCaption
InitCaption == CaptionInputs /\ ChatOff /\ RequestOff /\ WithRetryOff

NextCaption ==
  \/ GenerateCaption
  \/ TaskSettle
  \/ TaskWake

SpecCaption == InitCaption /\ [][NextCaption]_vars

\* the history branch of the field handler on every history field up to
\* MaxHist elements
InitHistory ==
  /\ CaptionOff
  /\ WithRetryOff
  /\ RequestOff
  /\ rev \in Revisions
  /\ histIn \in HistoryInputs(MaxHist)
  /\ personality = "yin"
  /\ userPrompt = <<"hi">>
  /\ imageParts = <<>>
  /\ pc = "form"
  /\ InitIdle

NextHistory == ProcessForm

SpecHistory == InitHistory /\ [][NextHistory]_vars

\* a request to any of the handlers, up to the launch of its model calls
InitRequest ==
  /\ ChatOff
  /\ WithRetryOff
  /\ CaptionOff
  /\ RequestInputs
  /\ rq = "start"
  /\ RequestIdle

NextRequest ==
  \/ Enter
  \/ ParseFields
  \/ FileEvent
  \/ StreamData
  \/ StreamError
  \/ StreamEnd
  \/ Launch
  \/ DeletedPhoto
  \/ Reply

SpecRequest == InitRequest /\ [][NextRequest]_vars

\* the handlers when the runtime delivers every event that is due and every
\* awaited promise that settles resumes its function; a stream error is an
\* event that need not happen
FairnessRequest ==
  /\ WF_vars(Enter)
  /\ WF_vars(ParseFields)
  /\ WF_vars(FileEvent)
  /\ WF_vars(StreamData)
  /\ WF_vars(StreamEnd)
  /\ WF_vars(Launch)
  /\ WF_vars(DeletedPhoto)
  /\ WF_vars(Reply)

SpecRequestLive == InitRequest /\ [][NextRequest]_vars /\ FairnessRequest

\* a call of withRetry with any configuration up to MaxTries retries
InitWithRetry ==
  /\ ChatOff
  /\ CaptionOff
  /\ RequestOff
  /\ retryConfig \in RetryConfigs
  /\ retryPc = "test"
  /\ retryAttempts = 0
  /\ operationCalls = <<>>
  /\ retryDelays = <<>>
  /\ retryResult = NotSettled

NextWithRetry ==
  \/ WithRetryTest
  \/ WithRetrySettle
  \/ WithRetryWake

SpecWithRetry == InitWithRetry /\ [][NextWithRetry]_vars

(***************************************************************************)
(* Claims about the chat endpoint.                                         *)
(***************************************************************************)
LastCall == calls[Len(calls)]
Succeeded == calls # <<>> /\ LastCall.status = 200
AllOverloaded == \A i \in 1..Len(calls) : calls[i].status = OVERLOADED
FixedReply == Parsed("object", JArray(<<JString(FAILURE_RESPONSE)>>))
\* chatResponse has resolved
Resolved == pc \in {"returned", "sent"} /\ responseJson # NoReply

\* C1: never-empty reply.  Whatever text a successful model call returned
\* (bubbles = [], no bubbles field, no JSON at all, ...), the response the chat
\* endpoint sends is the JSON reply and its bubbles array has length >= 1.
C1_NeverEmptyReply ==
  (pc = "sent" /\ Succeeded) =>
     /\ response.status = 200
     /\ Len(response.bubbles) >= 1

\* a request answered after the model returned text that is not JSON
C1_Witness ==
  /\ pc = "sent"
  /\ Succeeded
  /\ JSONparse(responseText).top = "throw"
  /\ Len(response.bubbles) = 1

\* C2: the withRetry-based chatResponse never rejects.  Once a model call has
\* been made, whatever the calls settle with, chatResponse resolves to a
\* reply that has a bubbles field and the handler answers 200, never 500.
C2_InvokerNeverRaises ==
  (rev \in WithRetryRevisions /\ calls # <<>>) =>
     /\ pc # "threw"
     /\ (pc \in {"returned", "sent"} => Resolved /\ responseJson.bubbles.t # "undefined")
     /\ (pc = "sent" => response.status = 200)

\* both tiers failed with an error that is not a 503, and the request was
\* answered
C2_Witness ==
  /\ rev \in WithRetryRevisions
  /\ pc = "sent"
  /\ Len(calls) = 2
  /\ calls[1].status = 400
  /\ calls[2].status = 0
  /\ response.status = 200

\* C3: retry exhaustion.  While every model call reports 503, the first 3
\* calls of the withRetry-based chatResponse go to the primary model and the
\* following ones to the fallback model; there are never more than 3 + 5
\* calls, and chatResponse resolves only after the 5th fallback call, to the
\* fixed reply {bubbles: ["... ummmmm"]}.
C3_RetryExhaustion ==
  (rev \in WithRetryRevisions /\ AllOverloaded) =>
     /\ \A i \in 1..Len(calls) : calls[i].tier = IF i <= 3 THEN "primary" ELSE "fallback"
     /\ Len(calls) <= 8
     /\ (tier = "fallback" => Len(calls) >= 3)
     /\ (Resolved =>
           /\ Len(calls) = 8
           /\ responseJson = FixedReply)
     /\ (pc = "sent" /\ Resolved =>
           response = [status |-> 200, body |-> "json",
                       bubbles |-> <<JString(FAILURE_RESPONSE)>>])

\* eight calls, all of them 503, and the request answered
C3_Witness ==
  /\ rev \in WithRetryRevisions
  /\ AllOverloaded
  /\ Len(calls) = 8
  /\ pc = "sent"

NonRetryable(c) == c.status \notin {200, OVERLOADED}

\* C4: in the withRetry-based chatResponse an error other than 503 is not
\* retried.  After such an error on the primary tier the next call is a
\* fallback call; after such an error on the fallback tier there is no further
\* call and chatResponse resolves to the fixed reply.
C4_NonRetryable ==
  rev \in WithRetryRevisions =>
    \A i \in 1..Len(calls) :
      NonRetryable(calls[i]) =>
        IF calls[i].tier = "primary"
          THEN IF i < Len(calls) THEN calls[i + 1].tier = "fallback"
               ELSE pc = "call" /\ tier = "fallback"
          ELSE /\ i = Len(calls)
               /\ pc \in {"returned", "sent"}
               /\ responseJson = FixedReply

\* a 400 on the primary tier, then a 400 on the fallback tier
C4_Witness ==
  /\ rev \in WithRetryRevisions
  /\ pc = "returned"
  /\ Len(calls) = 2
  /\ calls[1] = Call("primary", 400)
  /\ calls[2] = Call("fallback", 400)

\* C5: in the hand-written loops an error other than 503 never leaves the loop
\* function: on the primary tier it escalates to the fallback tier, on the
\* fallback tier it ends the invocation with the fallback value.  Stated for
\* chatResponse of yinYang.ts.
C5_LoopAbsorbsErrors ==
  (rev = "loop" /\ calls # <<>>) =>
     /\ pc # "threw"
     /\ (NonRetryable(LastCall) /\ LastCall.tier = "primary" => tier = "fallback")
     /\ (NonRetryable(LastCall) /\ LastCall.tier = "fallback" =>
           pc \in {"returned", "sent"} /\ responseJson = FixedReply)


(***************************************************************************)
(* Claims about generateCaption.                                           *)
(***************************************************************************)
\* the sub-task was launched and every model call it made failed
FailedEveryAttempt(task) ==
  /\ task.calls # <<>>
  /\ \A i \in 1..Len(task.calls) : task.calls[i].status # 200

\* C6: partial failure.  When all sub-tasks have settled and exactly one of
\* them failed on every attempt (with whatever error), generateCaption
\* resolves: the failed sub-task contributes its fallback string and every
\* other launched sub-task the text its model call returned.
C6_PartialFailure ==
  \A k \in CaptionTasks :
    ( /\ \A j \in CaptionTasks : Settled(tasks[j])
      /\ FailedEveryAttempt(tasks[k])
      /\ \A j \in CaptionTasks \ {k} : ~FailedEveryAttempt(tasks[j]) )
    => /\ agg = "resolved"
       /\ aggValue[k] = FAILURE_RESPONSES[k]
       /\ \A j \in CaptionTasks \ {k} :
            tasks[j].calls # <<>> => aggValue[j] = ModelText(j)

\* C7: aggregation waits for all.  The promise of generateCaption is settled
\* only when every sub-task is settled.
C7_WaitsForAll ==
  agg \in {"resolved", "rejected"} => \A k \in CaptionTasks : Settled(tasks[k])

(***************************************************************************)
(* Claims about the history normalizer.                                    *)
(***************************************************************************)
\* the history field is an array of objects that carry a role and a parts key
ValidHistory == histIn.kind = "array" /\ \A i \in 1..Len(histIn.items) : IsContent(histIn.items[i])

\* the history branch has run
Normalized == pc # "form"

\* C8: for every valid history array the normalized history is non-empty and
\* its first turn has role user.
C8_StartsWithUser ==
  (Normalized /\ ValidHistory) =>
     /\ pc # "threw"
     /\ Len(chatHistory) >= 1
     /\ chatHistory[1].role = "user"

\* a valid history that opens with a turn of an unknown role, normalized
C8_Witness ==
  /\ Normalized
  /\ ValidHistory
  /\ Len(histIn.items) >= 2
  /\ histIn.items[1].role = "system"
  /\ chatHistory[1] = Hello

Alternates(h) ==
  \A i \in 1..Len(h) : h[i].role = IF i % 2 = 1 THEN "user" ELSE "model"

\* C9 as stated: for every valid history the normalized history alternates
\* user, model, user, ...
C9_Alternates ==
  (Normalized /\ ValidHistory) => Alternates(chatHistory)

\* the input itself alternates between the user and the model/assistant role
\* (whichever comes first), and in the group revision, which drops turns
\* without text, every turn has text
InputAlternates ==
  /\ \A i \in 1..Len(histIn.items) : histIn.items[i].role \in {"user", "assistant", "model"}
  /\ \A i \in 1..(Len(histIn.items) - 1) :
       (histIn.items[i].role = "user") # (histIn.items[i + 1].role = "user")
  /\ rev = "group" => \A i \in 1..Len(histIn.items) : HasText(histIn.items[i])

\* C9 as amended: a valid history that itself alternates between user and
\* model/assistant turns is normalized to a history that alternates starting
\* from user.
C9_AlternatesIfInputDoes ==
  (Normalized /\ ValidHistory /\ InputAlternates) =>
     /\ pc # "threw"
     /\ Alternates(chatHistory)

\* an alternating history that opens with an assistant turn, normalized
C9_Witness ==
  /\ Normalized
  /\ ValidHistory
  /\ InputAlternates
  /\ Len(histIn.items) = 3
  /\ histIn.items[1].role = "assistant"
  /\ Alternates(chatHistory)

\* the history field is JSON but no array of objects with role and parts
MalformedHistory ==
  \/ histIn.kind = "notarray"
  \/ histIn.kind = "array" /\ \E i \in 1..Len(histIn.items) : ~IsContent(histIn.items[i])

\* C10: a malformed history field makes the request fail with a 400 response.
C10_MalformedIsBadRequest ==
  (pc = "sent" /\ MalformedHistory) => response.status = 400


\* the supplied history opens with a turn of the model (or assistant) role
LeadingModel ==
  /\ ValidHistory
  /\ Len(histIn.items) >= 1
  /\ histIn.items[1].role \in {"model", "assistant"}

\* the turns of the supplied history after the first, roles mapped
RestOfHistory ==
  [i \in 1..(Len(histIn.items) - 1) |->
     [histIn.items[i + 1] EXCEPT !.role = IF @ = "assistant" THEN "model" ELSE @]]

\* C11: a leading model (or assistant) turn is stripped.  The normalized
\* history is made of the turns that followed it and nothing else, but for the
\* synthetic user turn that may precede them.
C11_LeadingModelStripped ==
  (Normalized /\ LeadingModel) =>
     /\ pc # "threw"
     /\ \E k \in 0..1 :
          /\ Len(chatHistory) = k + Len(histIn.items) - 1
          /\ \A i \in 1..k : chatHistory[i] = Hello
          /\ \A i \in 1..(Len(histIn.items) - 1) :
               chatHistory[k + i] = RestOfHistory[i]

\* the revisions whose history branch strips a leading model turn
StripsLeadingModel == rev \in {"loop", "retry"}

\* the supplied history is the empty array, or is emptied by the strip
EmptyOrEmptied ==
  /\ histIn.kind = "array"
  /\ \/ histIn.items = <<>>
     \/ StripsLeadingModel /\ LeadingModel /\ Len(histIn.items) = 1

\* C12: an empty history, or one emptied by the strip of its leading model
\* turn, is normalized to exactly the synthetic turn {user, "Hello"}, and the
\* form is accepted.
C12_EmptyBecomesHello ==
  (Normalized /\ EmptyOrEmptied) => (pc = "chat" /\ chatHistory = <<Hello>>)

\* a history of one assistant turn, emptied by the strip and normalized
C12_Witness ==
  /\ Normalized
  /\ EmptyOrEmptied
  /\ Len(histIn.items) = 1
  /\ histIn.items[1].role = "assistant"
  /\ chatHistory = <<Hello>>


(***************************************************************************)
(* Claims about the request composer.                                      *)
(***************************************************************************)
\* chatResponse has composed the message of the request
Composed == tier # "none"

OtherReplied ==
  /\ rev = "group"
  /\ \E i \in 1..Len(chatHistory) :
       chatHistory[i].role = "model" /\ chatHistory[i].personality = Other(personality)

\* the string s contains the string p
Embeds(s, p) == \E i \in 1..(Len(s) - Len(p) + 1) : SubSeq(s, i, i + Len(p) - 1) = p

ImagesOf(c) == SelectSeq(c.parts, LAMBDA part : part.kind = "inlineData")

\* C13: no model call of a chat or caption handler carries a file whose
\* declared MIME type is outside the allow-list.
C13_OnlyAllowedMimeTypes ==
  \A c \in modelCalls :
    \A i \in 1..Len(c.parts) :
      c.parts[i].kind = "inlineData" => c.parts[i].data.mimeType \in allowedMimeTypes


\* the chat call of the request
ChatCalls == {c \in modelCalls : c.task = "chat"}

\* C15: when the prompt is blank and an attachment was accepted, the message
\* of the chat call is one text part that holds a describe-what-you-see
\* instruction, followed by the attachments.
C15_DescribeInsteadOfBlank ==
  \A c \in ChatCalls :
    (Trim(promptField) = <<>> /\ Len(reqImages) >= 1) =>
       /\ c.parts \in {<<TextPart(DESCRIBE_LOOP)>> \o reqImages,
                       <<TextPart(DESCRIBE_RETRY)>> \o reqImages}
       /\ c.parts[1].text # <<>>


\* the file parts of the body the handler keeps, in the order received
AcceptedFiles == SelectSeq(body, LAMBDA f : Accepts(endpoint, f))

\* C16: the image parts of the message sent to the model are the accepted
\* files in the order in which the body delivered them, none moved or lost,
\* whatever the order in which their streams end.
C16_ImagesInReceivedOrder ==
  \A c \in ChatCalls :
    ImagesOf(c) = [i \in 1..Len(AcceptedFiles) |-> FilePart(AcceptedFiles[i])]


\* C17: the form is parsed and a model call is launched only for a request
\* for which authenticate returned a uid; a POST without a valid bearer token
\* is answered 401 and nothing else happens.
C17_AuthenticatedBeforeCore ==
  /\ (parsed \/ modelCalls # {}) => uid # "none"
  /\ (method = "POST" /\ authHeader # "valid" /\ rq = "done") =>
        (resStatus = 401 /\ ~parsed /\ modelCalls = {})


\* the personality a field value stands for: yin or yang in any case,
\* otherwise (and without a field) the first one
Selected(field) ==
  CASE field \in {"yin", "Yin", "YIN"}    -> "yin"
    [] field \in {"yang", "Yang", "YANG"} -> "yang"
    [] OTHER                              -> "yin"

\* the handlers that read a personality from the request
SelectingEndpoints == {"yinYang", "yinYangRetry", "yin_yang", "caption", "handleDeletedPhoto"}

\* C18: the personality field is matched case-insensitively against yin and
\* yang, and any other value, or no value, selects yin: every model call of
\* the chat, caption and handleDeletedPhoto handlers is made on the model of
\* that personality.
C18_PersonalitySelection ==
  endpoint \in SelectingEndpoints =>
    \A c \in modelCalls : c.model = Selected(personalityField)


\* C19: every sub-task a caption handler launches runs on the model of the
\* personality the caller selected, and the transition comment uses the
\* transition prompt of that personality.
C19_PersonalityThreaded ==
  endpoint \in CaptionEndpoints =>
    \A c \in modelCalls :
      /\ c.model = Selected(personalityField)
      /\ c.task = "transitionalComment" => c.promptOf = Selected(personalityField)


\* the tasks of the model calls launched
TasksLaunched == {c.task : c \in modelCalls}

\* C20: sub-task preconditions.  A transition comment is generated only when
\* a non-empty previous description was supplied; caption and description
\* only when an image was accepted; without an accepted image a caption
\* handler answers 400 and calls no model, and the yang handler launches
\* the chat reply alone.
C20_SubTaskPreconditions ==
  /\ "transitionalComment" \in TasksLaunched => prevField \notin {"absent", ""}
  /\ TasksLaunched \cap {"caption", "description"} # {} => Len(reqImages) >= 1
  /\ (endpoint \in CaptionEndpoints /\ parsed /\ rq = "done" /\ AcceptedFiles = <<>>) =>
        (resStatus = 400 /\ modelCalls = {})
  /\ (endpoint = "yang" /\ rq \in {"called", "done"} /\ parsed /\ AcceptedFiles = <<>>) =>
        TasksLaunched = {"chat"}

\* a caption request with an image and an empty previous description: caption
\* and description are generated, the transition comment is not
C20_Witness ==
  /\ endpoint = "caption"
  /\ rq = "called"
  /\ prevField = ""
  /\ Len(reqImages) = 1
  /\ TasksLaunched = {"caption", "description"}


(***************************************************************************)
(* Claims about the response interpreter.                                  *)
(***************************************************************************)
\* the last model call succeeded and its text has been interpreted
Interpreted == Resolved /\ Succeeded

\* the raw text is no JSON
Unparseable == JSONparse(responseText).top = "throw"
\* the raw text is a JSON object or array without a bubbles field
BubblesAbsent ==
  /\ JSONparse(responseText).top \in {"object", "array"}
  /\ JSONparse(responseText).bubbles = JUndefined
\* the raw text is a JSON object whose bubbles field is the empty list
BubblesEmpty ==
  /\ JSONparse(responseText).top = "object"
  /\ JSONparse(responseText).bubbles = JArray(<<>>)

\* C21 as stated: unparseable text, absent bubbles and empty bubbles are all
\* repaired to one and the same filler line.
C21_SameSentinel ==
  (Interpreted /\ (Unparseable \/ BubblesAbsent \/ BubblesEmpty)) =>
     responseJson.bubbles = FixedReply.bubbles

\* the line a revision substitutes for text that is no JSON
ParseFailureLine == IF rev = "loop" THEN PARSE_FAILURE_LOOP ELSE PARSE_FAILURE_RETRY

\* C21 as amended: absent bubbles and empty bubbles are repaired to the same
\* filler line "... ummmmm"; unparseable text is repaired to another fixed
\* line, the parse-failure sentence of the revision.
C21_TwoSentinels ==
  /\ (Interpreted /\ (BubblesAbsent \/ BubblesEmpty)) =>
        responseJson.bubbles = FixedReply.bubbles
  /\ (Interpreted /\ Unparseable) =>
        /\ responseJson = Parsed("object", JArray(<<JString(ParseFailureLine)>>))
        /\ responseJson # FixedReply

\* a model text that is no JSON was repaired, and a model text with an empty
\* bubbles list could have been
C21_Witness ==
  /\ Interpreted
  /\ Unparseable
  /\ responseJson # FixedReply
  /\ pc = "sent"


\* the speaker labels a reply line can begin with: the two the code writes in
\* front of the model turns of the history, and the two the label regex names
WrittenLabels == {HistoryLabel("yin"), HistoryLabel("yang")}
RegexLabels == {<<ANGEL, " ", "yin", ":">>, <<DEVIL, "yang", ":">>}

\* the bubbles of the parsed model text are a non-empty list of strings
StringBubbles ==
  LET b == JSONparse(responseText).bubbles
  IN  /\ JSONparse(responseText).top = "object"
      /\ IsArray(b) /\ Len(b.items) > 0
      /\ \A i \in 1..Len(b.items) : b.items[i].t = "string"

\* every parsed bubble that begins with a label of the set no longer begins
\* with it in the reply
Stripped(labels) ==
  LET b == JSONparse(responseText).bubbles
  IN  \A i \in 1..Len(b.items) : \A lab \in labels :
        HasPrefixCI(b.items[i].s, lab) =>
          /\ IsArray(responseJson.bubbles)
          /\ Len(responseJson.bubbles.items) = Len(b.items)
          /\ ~HasPrefixCI(responseJson.bubbles.items[i].s, lab)

\* C22: in the group-chat revision a bubble that begins with a speaker label
\* (one the code writes in front of the model turns of the history, or one
\* the label regex names) is returned without that label.
C22_LabelStripped ==
  (rev = "group" /\ Interpreted /\ StringBubbles) =>
     Stripped(WrittenLabels \cup RegexLabels)


OnTier(cs, t) == {i \in 1..Len(cs) : cs[i].tier = t}

\* call i of the log ended its tier: an error that is not retried, or the
\* 503 that used up the primary budget
TerminalPrimaryFailure(cs, i) ==
  /\ cs[i].tier = "primary"
  /\ cs[i].status # 200
  /\ cs[i].status # OVERLOADED \/ Cardinality(OnTier(cs, "primary")) = MAX_PRIMARY_RETRIES

\* the log of the model calls of one invocation is ordered by tier and ends
\* with its first success
TierOrdered(cs) ==
  /\ \A i \in 1..Len(cs) : cs[i].tier \in {"primary", "fallback"}
  /\ \A j \in OnTier(cs, "fallback") :
       /\ j > 1
       /\ \A i \in 1..(j - 1) : cs[i].tier = "primary" => \A k \in i..(j - 1) : cs[k].status # 200
       /\ \E i \in 1..(j - 1) :
            /\ TerminalPrimaryFailure(cs, i)
            /\ \A k \in (i + 1)..Len(cs) : cs[k].tier = "fallback"
  /\ \A i \in 1..(Len(cs) - 1) : cs[i].status # 200

\* C24: within one invocation of chatResponse or generateContentWithRetry a
\* fallback call is made only after the primary tier has terminally failed,
\* no primary call follows a fallback call, and no call follows a success.
C24_TierOrdering ==
  /\ TierOrdered(calls)
  /\ \A k \in CaptionTasks : TierOrdered(tasks[k].calls)

\* the primary tier used up its budget and the fallback tier then succeeded
C24_Witness ==
  /\ Cardinality(OnTier(calls, "primary")) = MAX_PRIMARY_RETRIES
  /\ Cardinality(OnTier(calls, "fallback")) >= 2
  /\ Succeeded
  /\ pc = "sent"


\* the last n calls of the log are 503 failures of tier t, and they are all
\* the calls made on that tier
ConsecutiveOverloads(t, n) ==
  /\ n >= 1 /\ n <= Len(calls)
  /\ OnTier(calls, t) = (Len(calls) - n + 1)..Len(calls)
  /\ \A i \in OnTier(calls, t) : calls[i].status = OVERLOADED

\* C25: the delay started after the n-th consecutive 503 of a tier is
\* 1000 ms * n on the primary tier (exponential policy: 1000, then 2000) and
\* 1000 ms on the fallback tier (constant policy).
C25_Backoff ==
  pc = "wait" =>
    /\ ConsecutiveOverloads(tier, attempts)
    /\ delays # <<>>
    /\ delays[Len(delays)] = IF tier = "primary" THEN 1000 * attempts ELSE 1000
    /\ Len(delays) = Cardinality({i \in 1..Len(calls) : calls[i].status = OVERLOADED})
                       - (IF rev \in WithRetryRevisions /\ tier = "fallback"
                             /\ calls[Len(calls) - attempts].status = OVERLOADED
                            THEN 1 ELSE 0)

\* withRetry waited 1000 and 2000 ms on the primary tier and twice 1000 ms on
\* the fallback tier
C25_Witness ==
  /\ pc = "wait"
  /\ rev \in WithRetryRevisions
  /\ tier = "fallback"
  /\ delays = <<1000, 2000, 1000, 1000>>


\* chatResponse of a withRetry revision has been entered
Invoked == rev \in WithRetryRevisions /\ pc \in {"call", "wait"}
\* chatResponse has returned a reply after between 1 and 3 + 5 model calls
Terminated == pc = "returned" /\ Len(calls) >= 1 /\ Len(calls) <= 3 + 5

\* C26: provided every model call settles and every backoff delay elapses,
\* every invocation of the withRetry-based chatResponse returns, whatever the
\* outcomes of its model calls, after at least 1 and at most 8 model calls.
C26_Terminates ==
  /\ Invoked ~> Terminated
  /\ [](rev \in WithRetryRevisions => Len(calls) <= 3 + 5)

\* both tiers used up their budgets: eight model calls, then the fixed reply
C26_Witness ==
  /\ rev \in WithRetryRevisions
  /\ pc = "returned"
  /\ Len(calls) = 3 + 5
  /\ AllOverloaded


(***************************************************************************)
(* Claims about concurrent sub-tasks.                                      *)
(***************************************************************************)
\* the attempt counter of a running sub-task counts the 503 failures of its
\* own calls on its current tier
OwnCounter(k) ==
  tasks[k].st \in {"call", "wait"} =>
    tasks[k].attempts =
      Cardinality({i \in OnTier(tasks[k].calls, tasks[k].tier) :
                     tasks[k].calls[i].status = OVERLOADED})

\* a step of generateCaption after the launch changes one sub-task at most
OneTaskSteps ==
  agg \notin {"off", "idle"} =>
    \A k \in CaptionTasks : tasks'[k] # tasks[k] =>
      \A j \in CaptionTasks \ {k} : tasks'[j] = tasks[j]

\* C27: the concurrently running caption, description and transition
\* sub-tasks share no retry state: a step of one sub-task never changes the
\* record of another, and the attempt counter of each counts its own failures.
C27_NoSharedRetryState ==
  /\ [](\A k \in CaptionTasks : OwnCounter(k))
  /\ [][OneTaskSteps]_vars

\* two sub-tasks both used their full budgets of 3 primary and 10 fallback
\* calls while the third one succeeded at once
C27_Witness ==
  /\ Len(tasks["caption"].calls) = MAX_PRIMARY_RETRIES + MAX_FALLBACK_RETRIES
  /\ Len(tasks["transitionalComment"].calls) = MAX_PRIMARY_RETRIES + MAX_FALLBACK_RETRIES
  /\ Len(tasks["description"].calls) = 1
  /\ \A k \in CaptionTasks : tasks[k].st = "resolved"


(***************************************************************************)
(* Claims about the attachment decoder.                                    *)
(***************************************************************************)
\* the multipart stream has finished and every file stream that was kept has
\* ended
StreamsOver ==
  \A i \in 1..Len(body) :
     \/ streams[i] \in {"skipped", "ended"}
     \/ streams[i] = "ignored" /\ ~Accepts(endpoint, body[i])

\* C28: a model call of a form-parsing handler is launched only when the
\* multipart stream has finished and every accepted file stream has ended,
\* and each image part of the call holds all the bytes of its file, in the
\* order of arrival of its chunks.
C28_NoPartialAttachments ==
  (modelCalls # {} /\ endpoint # "handleDeletedPhoto") =>
     /\ StreamsOver
     /\ \A i \in 1..Len(body) : streams[i] = "ended" =>
          Emitted(chunks[i]) = Len(body[i].payload)
     /\ \A c \in modelCalls :
          /\ Len(ImagesOf(c)) = Len(AcceptedFiles)
          /\ \A k \in 1..Len(ImagesOf(c)) :
               \E i \in 1..Len(body) :
                  /\ streams[i] = "ended"
                  /\ ImagesOf(c)[k] = FilePart(body[i])

\* the model was called with an image whose file arrived in two chunks
C28_Witness ==
  /\ endpoint = "yinYang"
  /\ modelCalls # {}
  /\ \E i \in 1..Len(body) : Len(chunks[i]) = 2
  /\ \E c \in modelCalls : Len(ImagesOf(c)) = 2


(***************************************************************************)
(* Claims about the roles of the normalized history.                       *)
(***************************************************************************)
\* the role the claim gives a turn: the label of the assistant becomes
\* model, any other label stays
CanonicalRole(role) == IF role = "assistant" THEN "model" ELSE role

\* the k-th smallest element of a set of indices
Nth(S, k) == CHOOSE x \in S : Cardinality({y \in S : y <= x}) = k

\* q is made of turns of the history field, in their order, each with its
\* role canonicalized and nothing else changed
KeptAndCanonical(q) ==
  \E S \in SUBSET (1..Len(histIn.items)) :
    /\ Cardinality(S) = Len(q)
    /\ \A k \in 1..Len(q) :
         q[k] = [histIn.items[Nth(S, k)] EXCEPT
                   !.role = CanonicalRole(histIn.items[Nth(S, k)].role)]

\* C29: every turn of the normalized history, the injected first user turn
\* aside, is a turn of the history field whose role is model if its label
\* was that of the assistant and is its own label otherwise.
C29_RoleCanonical ==
  (pc = "chat" /\ histIn.kind = "array") =>
     /\ \A k \in 1..Len(chatHistory) : chatHistory[k].role # "assistant"
     /\ \/ KeptAndCanonical(chatHistory)
        \/ chatHistory # <<>> /\ Head(chatHistory) = Hello
             /\ KeptAndCanonical(Tail(chatHistory))

\* an assistant turn became a model turn next to a turn whose role was kept
C29_Witness ==
  /\ pc = "chat"
  /\ histIn.kind = "array"
  /\ Len(histIn.items) = 3
  /\ histIn.items[2].role = "assistant"
  /\ histIn.items[3].role = "system"
  /\ Len(chatHistory) = 3
  /\ chatHistory[2].role = "model"
  /\ chatHistory[3].role = "system"


(***************************************************************************)
(* Claims about the new user message.                                      *)
(***************************************************************************)
\* C30: whatever the prompt (empty and blank ones included) and whatever the
\* accepted attachments (none included), the list of parts of the message
\* passed to sendMessage has at least one element.
C30_MessageNonEmpty ==
  calls # <<>> => Len(messageParts) >= 1


(***************************************************************************)
(* Claims about the responses of the handlers.                             *)
(***************************************************************************)
\* C31: on every path through a chat handler (wrong method, failed
\* authentication, rejected history, stream error, model failure, success)
\* a response-sending method is called at most once.
C31_AtMostOneResponse ==
  endpoint \in ChatEndpoints => sends <= 1

\* C32: a request whose history field was rejected makes no model call.
C32_RejectedNeverReachesModel ==
  (endpoint \in ChatEndpoints /\ historyField = "rejected") => modelCalls = {}


(***************************************************************************)
(* Claims about the history handed to the model.                           *)
(***************************************************************************)
\* C33: in every request that reaches the model, a request without a history
\* field included, the history passed to startChat is non-empty and begins
\* with a user turn.
C33_HistoryStartsWithUser ==
  calls # <<>> => (chatHistory # <<>> /\ chatHistory[1].role = "user")


\* turn a with the role of turn b
WithRoleOf(a, b) == [a EXCEPT !.role = b.role]

\* out is the input q without its first drop turns, behind add synthetic
\* turns, every kept turn unchanged but for its role
FrontOnly(q, out, drop, add) ==
  /\ drop <= Len(q)
  /\ Len(out) = add + Len(q) - drop
  /\ add = 1 => out[1] = Hello
  /\ \A i \in (drop + 1)..Len(q) : out[add + i - drop] = WithRoleOf(q[i], out[add + i - drop])

\* C34: the strict normalization removes at most the first turn of the
\* history and adds at most one synthetic turn at the front; every other
\* turn of the input is in the output once, in input order, with its parts
\* unchanged.
C34_OnlyFrontChanges ==
  (pc = "chat" /\ histIn.kind = "array" /\ rev # "group") =>
     \E drop \in {0, 1}, add \in {0, 1} : FrontOnly(histIn.items, chatHistory, drop, add)

\* the first turn was removed, a synthetic turn added, two turns kept
C34_Witness ==
  /\ pc = "chat"
  /\ rev = "loop"
  /\ histIn.kind = "array"
  /\ Len(histIn.items) = 3
  /\ histIn.items[1].role = "assistant"
  /\ histIn.items[2].role = "model"
  /\ chatHistory = <<Hello, histIn.items[2], histIn.items[3]>>


\* a model call has just returned text that has to be repaired
MalformedReturn ==
  /\ calls' # calls
  /\ calls'[Len(calls')].status = 200
  /\ (Unparseable \/ BubblesAbsent \/ BubblesEmpty)'

\* a malformed return ends the invocation with the repaired reply
EndsWithRepair ==
  MalformedReturn =>
    /\ pc' = "returned"
    /\ tier' = tier /\ attempts' = attempts
    /\ responseJson'.bubbles = IF Unparseable' THEN Sentinel(ParseFailureLine').bubbles
                               ELSE FixedReply.bubbles

\* no model call is made once chatResponse has returned
NoCallAfterReturn == (pc \in {"returned", "sent"}) => (calls' = calls)

\* C35: a model call that returns unparseable text or text without usable
\* bubbles ends the invocation with the repaired reply: the tier and the
\* attempt counter stay as they are, and no model call is made afterwards.
C35_NoRetryOnMalformed == [][EndsWithRepair /\ NoCallAfterReturn]_vars

\* after one 503 the primary model returned text that is no JSON, and the
\* invocation ended there
C35_Witness ==
  /\ rev \in WithRetryRevisions
  /\ pc = "returned"
  /\ Succeeded /\ Unparseable
  /\ Len(calls) = 2
  /\ tier = "primary"
  /\ attempts = 1


(***************************************************************************)
(* Claims about generateContentWithRetry under an overloaded model.        *)
(***************************************************************************)
\* every call sub-task k has made so far was answered 503
AlwaysOverloaded(k) ==
  /\ tasks[k].calls # <<>>
  /\ \A i \in 1..Len(tasks[k].calls) : tasks[k].calls[i].status = OVERLOADED

\* C36: when the model answers 503 to every call, generateContentWithRetry
\* makes 3 primary calls, then 10 fallback calls, and resolves (it does not
\* reject) to "caption error" for the caption and to the empty string for
\* the description and the transition comment.
C36_OverloadedResolvesToFailureValue ==
  \A k \in CaptionTasks : AlwaysOverloaded(k) =>
     /\ tasks[k].st # "rejected"
     /\ Len(tasks[k].calls) <= 3 + 10
     /\ \A i \in 1..Len(tasks[k].calls) :
          tasks[k].calls[i].tier = IF i <= 3 THEN "primary" ELSE "fallback"
     /\ tasks[k].st = "resolved" =>
          /\ Len(tasks[k].calls) = 3 + 10
          /\ tasks[k].value = IF k = "caption" THEN "caption error" ELSE ""

\* all three sub-tasks met an overloaded model throughout and generateCaption
\* resolved with the three failure values
C36_Witness ==
  /\ \A k \in CaptionTasks : AlwaysOverloaded(k) /\ tasks[k].st = "resolved"
  /\ tasks["caption"].value = "caption error"
  /\ tasks["description"].value = ""
  /\ agg = "resolved"


(***************************************************************************)
(* Claims about the handler that parses the form in two phases.            *)
(***************************************************************************)
\* an authenticated POST to the phased yin_yang handler with an image
PhasedImageRequest ==
  /\ endpoint = "yin_yangPhased"
  /\ method = "POST"
  /\ authHeader = "valid"
  /\ HasImages(body)

\* C37: every authenticated POST request to the phased yin_yang handler that
\* carries at least one image eventually receives a response.
C37_PhasedRequestAnswered == PhasedImageRequest ~> (sends >= 1)

(***************************************************************************)
(* C38. With maxRetries >= 1, withRetry invokes the operation at least     *)
(* once and at most maxRetries times, resolves to the value of the first   *)
(* invocation that succeeds, and rejects with the error its last           *)
(* invocation threw. The "All retries failed" error is thrown only with    *)
(* maxRetries < 1, and then the operation is never invoked.                *)
(***************************************************************************)
Invocations == Len(operationCalls) + (IF retryPc = "await" THEN 1 ELSE 0)

WithRetrySettled == retryPc \in {"resolved", "rejected"}

FirstSuccess(i) ==
  /\ operationCalls[i].ok
  /\ \A j \in 1..(i - 1) : ~operationCalls[j].ok

C38_WithRetryContract ==
  /\ retryConfig.maxRetries >= 1 =>
       /\ Invocations <= retryConfig.maxRetries
       /\ WithRetrySettled => Invocations >= 1
       /\ retryPc = "resolved" =>
            \E i \in 1..Len(operationCalls) :
              FirstSuccess(i) /\ retryResult = operationCalls[i]
       /\ retryPc = "rejected" =>
            /\ operationCalls # <<>>
            /\ retryResult = operationCalls[Len(operationCalls)]
            /\ ~retryResult.ok
  /\ (WithRetrySettled /\ retryResult.generic) => retryConfig.maxRetries < 1
  /\ retryConfig.maxRetries < 1 => Invocations = 0

\* every attempt the configuration allows was overloaded: the rejection is the
\* error of the last one
C38_Witness ==
  /\ retryConfig.maxRetries = 3
  /\ retryPc = "rejected"
  /\ Len(operationCalls) = 3
  /\ \A i \in 1..3 : operationCalls[i].status = OVERLOADED
  /\ retryResult = operationCalls[3]

====
